---- MODULE Spec2Model ----
(***************************************************************************)
(* Delivery resilience pipeline of wakatime-cli: the persistent            *)
(* exponential-backoff gate (pkg/backoff), the ini writer it persists its  *)
(* state with (pkg/config), the command supervisor (cmd/legacy), the chain *)
(* of handle options around the sender with the file-stats detection       *)
(* (pkg/filestats), and the offline save command (cmd/offline).            *)
(*                                                                         *)
(* Time is counted in ticks, TicksPerSec ticks to the second, so that the  *)
(* sub-second part of time.Now() and its loss in the RFC3339 text of       *)
(* backoff_at are part of the model.  Durations are Go time.Duration       *)
(* values: signed 64-bit nanosecond counts, kept here as four 16-bit limbs *)
(* (least significant first) so that the multiplication by time.Second     *)
(* wraps exactly as it does in the program.                                *)
(***************************************************************************)
EXTENDS Integers, Sequences, FiniteSets, TLC

(***************************************************************************)
(* Bounds of the model.                                                    *)
(***************************************************************************)
TicksPerSec == 2        \* clock resolution: ticks per second
StartSec == 4000        \* wall-clock second at which the model starts
MaxRetries == 64        \* largest backoff_retries value the model lets exist
MaxAdvances == 1        \* number of times the clock advances
MaxCalls == 2           \* invocations of the gated Handle, all processes together
MaxExtra == 2           \* extra heartbeats read along with the main heartbeat

(***************************************************************************)
(* Program constants.                                                      *)
(***************************************************************************)
resetAfter == 3600
factor == 15
maxFileSizeSupported == 2097152

ZeroTime == 0 - 1       \* time.Time{}: the zero instant, IsZero() holds
EmptyValue == 0 - 1     \* the empty string as the text of backoff_at

IsZero(t) == t = ZeroTime

(***************************************************************************)
(* 64-bit integers as limbs.                                               *)
(***************************************************************************)
Base == 2 ^ 16
Limbs64 == 2 + 2
WideLimbs == Limbs64 + 2

RECURSIVE FromInt(_, _)
\* the non-negative integer n as w limbs
FromInt(n, w) == IF w = 0 THEN << >> ELSE << n % Base >> \o FromInt(n \div Base, w - 1)

RECURSIVE MulCarry(_, _, _, _)
MulCarry(x, k, i, c) ==
    IF i > Len(x) THEN << >>
    ELSE LET p == x[i] * k + c
         IN  << p % Base >> \o MulCarry(x, k, i + 1, p \div Base)

\* x * k modulo Base^Len(x), for 0 <= k <= 2^15
MulSmall(x, k) == MulCarry(x, k, 1, 0)

\* x * 10^9 modulo Base^Len(x)
MulBillion(x) == MulSmall(MulSmall(MulSmall(x, 1000), 1000), 1000)

\* x * 2^n modulo Base^Len(x): whole limbs first, then the remaining bits
Shl(x, n) ==
    LET q == n \div 16
        shifted == [i \in 1..Len(x) |-> IF i <= q THEN 0 ELSE x[i - q]]
    IN  MulSmall(shifted, 2 ^ (n % 16))

Widen(x) == x \o [i \in 1..(WideLimbs - Len(x)) |-> 0]

RECURSIVE LimbLess(_, _, _)
\* x < y as unsigned numbers of equal length, compared from limb i down
LimbLess(x, y, i) ==
    IF i = 0 THEN FALSE
    ELSE IF x[i] # y[i] THEN x[i] < y[i]
    ELSE LimbLess(x, y, i - 1)

Less(x, y) == LimbLess(x, y, Len(x))

IsNegative(d) == d[Len(d)] >= Base \div 2

RECURSIVE AddCarry(_, _, _)
AddCarry(x, i, c) ==
    IF i > Len(x) THEN << >>
    ELSE LET s == x[i] + c
         IN  << s % Base >> \o AddCarry(x, i + 1, s \div Base)

\* the magnitude of a negative two's complement number
Negate(d) == AddCarry([i \in 1..Len(d) |-> (Base - 1) - d[i]], 1, 1)

MinInt64 == [i \in 1..Limbs64 |-> IF i = Limbs64 THEN Base \div 2 ELSE 0]
MaxInt64 == [i \in 1..Limbs64 |-> IF i = Limbs64 THEN (Base \div 2) - 1 ELSE Base - 1]

\* What the build makes of a float64 too large for int64: the amd64
\* "integer indefinite" value, or the saturated value of arm64 and riscv64.
FloatConversions == {"indefinite", "saturate"}

\* int64(float64(factor) * math.Pow(2, float64(retries))), for retries >= 1
FloatToInt64(retries, conv) ==
    LET w    == Limbs64 + (retries \div 16) + 1
        wide == Shl(FromInt(factor, w), retries)
        fits == /\ \A i \in (Limbs64 + 1)..w : wide[i] = 0
                /\ wide[Limbs64] < Base \div 2
    IN  IF fits THEN SubSeq(wide, 1, Limbs64)
        ELSE IF conv = "indefinite" THEN MinInt64 ELSE MaxInt64

\* time.Duration(x) * time.Second, wrapping in 64 bits
Seconds(x) == MulBillion(x)

Abs(n) == IF n < 0 THEN 0 - n ELSE n

\* now.Before(at.Add(d)) for instants in ticks and a Duration d
Before(t, at, d) ==
    LET e   == t - at
        lhs == MulBillion(FromInt(Abs(e), WideLimbs))
        mag == IF IsNegative(d) THEN Negate(d) ELSE d
        rhs == MulSmall(Widen(mag), TicksPerSec)
    IN  IF IsNegative(d) THEN e < 0 /\ Less(rhs, lhs)
        ELSE e < 0 \/ Less(lhs, rhs)

\* shouldBackoff without the resetAfter ceiling
shouldBackoffNoCeiling(retries, at, t, conv) ==
    IF retries < 1 \/ IsZero(at) THEN FALSE
    ELSE Before(t, at, Seconds(FloatToInt64(retries, conv)))

shouldBackoff(retries, at, t, conv) ==
    IF retries < 1 \/ IsZero(at) THEN FALSE
    ELSE LET duration == Seconds(FloatToInt64(retries, conv))
         IN  /\ Before(t, at, duration)
             /\ Before(t, at, Seconds(FromInt(resetAfter, Limbs64)))

\* at.Format(ini.DateFormat): RFC3339 text, whole seconds
Format(t) == t \div TicksPerSec

\* time.Parse(ini.DateFormat, text)
Parse(text) == text * TicksPerSec

(***************************************************************************)
(* State.                                                                  *)
(***************************************************************************)
VARIABLES
    now,        \* the wall clock, in ticks
    advances,   \* how often the clock has advanced
    file,       \* the config file: section "internal", keys backoff_retries, backoff_at
    pc,         \* per process: where it is in WithBackoff's Handle
    config,     \* per process: backoff.Config (Retries, At) the Handle closed over
    calls,      \* per process: invocations of the Handle so far
    nextResult, \* per process: what next(hh) returned in this invocation
    req,        \* per process: arguments of the pending updateBackoffSettings call
    writer,     \* per process: the ini.File loaded by NewIniWriter
    ret,        \* per process: what the Handle returned in this invocation
    cwPc,       \* config writer: where another writer of the config file is
    cwWriter,   \* config writer: its IniWriter
    cwRet,      \* config writer: what its Write returned
    verbose,    \* supervisor: logFileParams.Verbose
    chain,      \* supervisor: entered through RunCmdWithOfflineSync
    supPc,      \* supervisor: where the process is in RunCmd / runCmd
    stage,      \* supervisor: the command under runCmd, "primary" or "resync"
    logOutput,  \* supervisor: the global log sink, as the buffers teed onto the original
    resetTo,    \* supervisor: the sink the resetLogs closure of this runCmd restores
    cmdRuns,    \* supervisor: per stage, how often the command function was called
    outcome,    \* supervisor: per stage, how the command function ended
    uploads,    \* supervisor: the sendDiagnostics calls made, in order
    exitCode,   \* supervisor: the code the process exited with
    configFile, \* run: the config file on disk: missing, parsable or malformed
    flags,      \* run: the command-line parameters that are set
    command,    \* run: the command function handed to runCmd
    savePc,     \* offline save: where the process is in SaveHeartbeats
    heartbeats, \* offline save: the heartbeats argument, Nil or a batch
    params,     \* offline save: what the parameter loaders find in the configuration
    handleOpts, \* chain: the handle options the Handle was built from, outermost first
    queues,     \* offline save: how often offline.WithQueue built a queue option
    flow,       \* chain: "idle", calls going "down", returns coming "up", "done"
    depth,      \* chain: the option whose Handle is running; Len(handleOpts) + 1 is the sender
    hh,         \* chain: the batch the running Handle was called with
    trace,      \* chain: the Handles entered in this invocation, with their batch
    handleRet,  \* chain: what the Handle that returned last has returned
    handleCalls, \* chain: invocations of the composed Handle so far
    store,      \* chain: the heartbeats the sender has delivered or enqueued
    saveRet     \* offline save: what SaveHeartbeats returned

cwVars == << cwPc, cwWriter, cwRet >>
gateVars == << now, advances, file, pc, config, calls, nextResult, req, writer, ret,
              cwPc, cwWriter, cwRet >>
runVars == << configFile, flags, command >>
supVars == << verbose, chain, supPc, stage, logOutput, resetTo, cmdRuns, outcome, uploads, exitCode,
             configFile, flags, command >>
saveVars == << savePc, heartbeats, params, queues, saveRet >>
chainVars == << handleOpts, flow, depth, hh, trace, handleRet, handleCalls, store >>
vars == << now, advances, file, pc, config, calls, nextResult, req, writer, ret,
           cwPc, cwWriter, cwRet,
           verbose, chain, supPc, stage, logOutput, resetTo, cmdRuns, outcome, uploads, exitCode, configFile, flags, command,
           savePc, heartbeats, params, handleOpts, queues, flow, depth, hh, trace, handleRet,
           handleCalls, store, saveRet >>

Procs == {"p1", "p2"}

NoReq == [retries |-> 0 - 1, at |-> ZeroTime, set |-> FALSE]
NoWriter == [loaded |-> FALSE]

Start == StartSec * TicksPerSec

\* strconv.Itoa followed by the integer parse of the reader
Itoa(n) == n

BackoffKeys(retries, at) ==
    [backoff_retries |-> Itoa(retries),
     backoff_at      |-> IF IsZero(at) THEN EmptyValue ELSE Format(at),
     debug           |-> "false"]

HealthyFile == BackoffKeys(0, ZeroTime)

\* durable records a run of the program can have left behind
InitFiles ==
    {HealthyFile} \cup
    {BackoffKeys(2, Parse(StartSec - 20)),
     BackoffKeys(2, Parse(StartSec - 3700)),
     BackoffKeys(29, Parse(StartSec - 3700))}

\* clock steps, in ticks: one tick, 20 s, one hour
Steps == {1, 20 * TicksPerSec, resetAfter * TicksPerSec}

InitProcs ==
    /\ pc = [p \in Procs |-> "init"]
    /\ config = [p \in Procs |-> [Retries |-> 0, At |-> ZeroTime]]
    /\ calls = [p \in Procs |-> 0]
    /\ nextResult = [p \in Procs |-> "none"]
    /\ req = [p \in Procs |-> NoReq]
    /\ writer = [p \in Procs |-> NoWriter]
    /\ ret = [p \in Procs |-> "none"]

InitBackoff ==
    /\ now = Start
    /\ advances = 0
    /\ file \in InitFiles
    /\ InitProcs

(***************************************************************************)
(* The backoff gate.                                                       *)
(***************************************************************************)
\* A process invocation starts (the previous one, if any, has exited): the
\* command reads backoff_retries and backoff_at into backoff.Config and
\* builds the Handle with WithBackoff(config).
ReadConfig(f) ==
    [Retries |-> f.backoff_retries,
     At      |-> IF f.backoff_at = EmptyValue THEN ZeroTime ELSE Parse(f.backoff_at)]

LoadConfig(p) ==
    /\ pc[p] \in {"init", "returned"}
    /\ config' = [config EXCEPT ![p] = ReadConfig(file)]
    /\ pc' = [pc EXCEPT ![p] = "ready"]
    /\ nextResult' = [nextResult EXCEPT ![p] = "none"]
    /\ req' = [req EXCEPT ![p] = NoReq]
    /\ writer' = [writer EXCEPT ![p] = NoWriter]
    /\ ret' = [ret EXCEPT ![p] = "none"]
    /\ UNCHANGED << now, advances, file, calls >>
    /\ UNCHANGED cwVars
    /\ UNCHANGED << supVars, saveVars, chainVars >>

RECURSIVE SumOver(_, _)
SumOver(f, S) ==
    IF S = {} THEN 0
    ELSE LET x == CHOOSE y \in S : TRUE IN f[x] + SumOver(f, S \ {x})

\* invocations of the Handle made so far
TotalCalls == SumOver(calls, Procs)

\* the gate logs its decision but calls next all the same
AfterGateFallsThrough(blocked) == "next"

\* where the Handle goes after the gate: back to its caller, or on to next
AfterGate(blocked) == IF blocked THEN "returned" ELSE "next"

\* The Handle is entered: shouldBackoff decides whether next is called.
HandleEnter(p) ==
    /\ pc[p] \in {"ready", "returned"}
    /\ TotalCalls < MaxCalls
    /\ calls' = [calls EXCEPT ![p] = @ + 1]
    /\ nextResult' = [nextResult EXCEPT ![p] = "none"]
    /\ req' = [req EXCEPT ![p] = NoReq]
    /\ writer' = [writer EXCEPT ![p] = NoWriter]
    /\ \E conv \in FloatConversions :
        LET blocked == shouldBackoff(config[p].Retries, config[p].At, now, conv)
        IN  /\ pc' = [pc EXCEPT ![p] = AfterGate(blocked)]
            /\ ret' = [ret EXCEPT ![p] = IF blocked THEN "backoff_error" ELSE "none"]
    /\ UNCHANGED << now, advances, file, config >>
    /\ UNCHANGED cwVars
    /\ UNCHANGED << supVars, saveVars, chainVars >>

\* the failure update keeping the instant of the first failure of a streak
FailureUpdateKeepsSince(c, t) ==
    [retries |-> c.Retries + 1, at |-> IF IsZero(c.At) THEN t ELSE c.At, set |-> TRUE]

\* the success update writing the reset whatever state was evaluated
SuccessUpdateAlways(c) == [retries |-> 0, at |-> ZeroTime, set |-> TRUE]

\* the arguments of updateBackoffSettings after an error of next at instant t
FailureUpdate(c, t) == [retries |-> c.Retries + 1, at |-> t, set |-> TRUE]

\* the arguments of updateBackoffSettings after a success of next, if it is called
SuccessUpdate(c) ==
    IF ~IsZero(c.At) THEN [retries |-> 0, at |-> ZeroTime, set |-> TRUE] ELSE NoReq

\* the error of updateBackoffSettings handed to the caller
ReturnedUpdateError(p) ==
    IF ~writer[p].loaded THEN "update_error"
    ELSE IF nextResult[p] = "err" THEN "next_error" ELSE "results"

\* what the Handle returns once its bookkeeping is over
Returned(p) == IF nextResult[p] = "err" THEN "next_error" ELSE "results"

\* next(hh) returns; on an error, and on a success after a streak, the
\* Handle calls updateBackoffSettings.
NextReturns(p) ==
    /\ pc[p] = "next"
    /\ \E r \in {"ok", "err"} :
        /\ nextResult' = [nextResult EXCEPT ![p] = r]
        /\ r = "err" => config[p].Retries < MaxRetries
        /\ LET update == IF r = "err" THEN FailureUpdate(config[p], now)
                         ELSE SuccessUpdate(config[p])
           IN  /\ req' = [req EXCEPT ![p] = update]
               /\ pc' = [pc EXCEPT ![p] = IF update.set THEN "update" ELSE "returned"]
               /\ ret' = [ret EXCEPT ![p] = IF update.set THEN "none" ELSE "results"]
    /\ UNCHANGED << now, advances, file, config, calls, writer >>
    /\ UNCHANGED cwVars
    /\ UNCHANGED << supVars, saveVars, chainVars >>

\* updateBackoffSettings, first half: ini.NewIniWriter loads the file.
\* A load error is logged by the Handle, which then returns.
NewIniWriter(p) ==
    /\ pc[p] = "update"
    /\ \E loaded \in BOOLEAN :
        IF loaded
        THEN /\ writer' = [writer EXCEPT ![p] = [loaded |-> TRUE, File |-> file]]
             /\ pc' = [pc EXCEPT ![p] = "write"]
             /\ ret' = ret
        ELSE /\ writer' = writer
             /\ pc' = [pc EXCEPT ![p] = "returned"]
             /\ ret' = [ret EXCEPT ![p] = Returned(p)]
    /\ UNCHANGED << now, advances, file, config, calls, nextResult, req >>
    /\ UNCHANGED cwVars
    /\ UNCHANGED << supVars, saveVars, chainVars >>

\* a write that sets backoff_retries and leaves backoff_at as loaded
WriteKeysRetriesOnly(f, r) == [f EXCEPT !.backoff_retries = Itoa(r.retries)]

\* the keys w.Write sets in the loaded file
WriteKeys(f, r) ==
    [f EXCEPT !.backoff_retries = Itoa(r.retries),
              !.backoff_at = IF IsZero(r.at) THEN EmptyValue ELSE Format(r.at)]

\* updateBackoffSettings, second half: IniWriter.Write sets the two keys in
\* the loaded file and saves it.  A save error is logged and swallowed.
IniWrite(p) ==
    /\ pc[p] = "write"
    /\ \E saved \in BOOLEAN :
        file' = IF saved THEN WriteKeys(writer[p].File, req[p]) ELSE file
    /\ pc' = [pc EXCEPT ![p] = "returned"]
    /\ ret' = [ret EXCEPT ![p] = Returned(p)]
    /\ UNCHANGED << now, advances, config, calls, nextResult, req, writer >>
    /\ UNCHANGED cwVars
    /\ UNCHANGED << supVars, saveVars, chainVars >>

\* time passes
Tick ==
    /\ advances < MaxAdvances
    /\ \E d \in Steps : now' = now + d
    /\ advances' = advances + 1
    /\ UNCHANGED << file, pc, config, calls, nextResult, req, writer, ret >>
    /\ UNCHANGED cwVars
    /\ UNCHANGED << supVars, saveVars, chainVars >>

NextBackoff ==
    \/ \E p \in Procs :
          \/ LoadConfig(p)
          \/ HandleEnter(p)
          \/ NextReturns(p)
          \/ NewIniWriter(p)
          \/ IniWrite(p)
    \/ Tick

\* the config file the writers share (ini.FilePath)
ConfigFilepath == "wakatime.cfg"

\* an IniWriter whose File is nil and whose ConfigFilepath is empty
UndefinedWriter == [loaded |-> FALSE, ConfigFilepath |-> ""]

\* the other writer of the config file is not running
CwIdle ==
    /\ cwPc = "idle"
    /\ cwWriter = UndefinedWriter
    /\ cwRet = "none"

\* Another writer of the same file, through the same IniWriter: it either
\* loads the file into a new IniWriter, fails to load it, or holds an
\* IniWriter that was never given a file.
CwNewIniWriter ==
    /\ cwPc = "init"
    /\ \E how \in {"loaded", "load_error", "undefined"} :
        /\ cwWriter' = IF how = "loaded"
                       THEN [loaded |-> TRUE, File |-> file,
                             ConfigFilepath |-> ConfigFilepath]
                       ELSE UndefinedWriter
        /\ cwPc' = IF how = "load_error" THEN "done" ELSE "write"
        /\ cwRet' = IF how = "load_error" THEN "load_error" ELSE cwRet
    /\ UNCHANGED << now, advances, file, pc, config, calls, nextResult, req, writer, ret >>
    /\ UNCHANGED << supVars, saveVars, chainVars >>

\* the guard at the head of Write
WriteRefused(w) == ~w.loaded \/ w.ConfigFilepath = ""

\* the key the other writer sets: debug of section settings
WriteDebug(f, value) == [f EXCEPT !.debug = value]

\* IniWriter.Write of the other writer: refuse an undefined instance,
\* otherwise set the key in the loaded file and save the loaded file.
CwWrite ==
    /\ cwPc = "write"
    /\ IF WriteRefused(cwWriter)
       THEN /\ cwRet' = "undefined_error"
            /\ file' = file
       ELSE \E saved \in BOOLEAN :
            /\ file' = IF saved THEN WriteDebug(cwWriter.File, "true") ELSE file
            /\ cwRet' = IF saved THEN "nil" ELSE "save_error"
    /\ cwPc' = "done"
    /\ cwWriter' = cwWriter
    /\ UNCHANGED << now, advances, pc, config, calls, nextResult, req, writer, ret >>
    /\ UNCHANGED << supVars, saveVars, chainVars >>

\* the backoff processes and the other writer, interleaved
NextIni ==
    \/ NextBackoff
    \/ CwNewIniWriter
    \/ CwWrite

(***************************************************************************)
(* The command supervisor.                                                 *)
(***************************************************************************)
ExitCodes == {"Success", "ErrGeneric", "ErrAuth", "ErrConfigFileParse"}

\* Run is not part of the behaviour: no parameters, no command chosen by it
RunIdle ==
    /\ configFile = "missing"
    /\ flags = {}
    /\ command = "none"

NoOutcome == [kind |-> "none"]

\* the sink SetupLogging installed: nothing teed onto it
OriginalSink == << >>

\* io.MultiWriter(logOutput, dest)
MultiWriter(sink, dest) == Append(sink, dest)

\* the panic reported in verbose mode only
PanicSendsDiagnosticsWhenVerbose(v) == v

\* the resync command chained whatever the primary command returned
ChainsResyncAlways(code) == TRUE

\* whether the recovered panic is reported
PanicSendsDiagnostics(v) == ~v

\* whether the returned error is reported
ErrorSendsDiagnostics(code, v) == code # "ErrAuth" /\ v

\* whether RunCmdWithOfflineSync goes on to the resync command
ChainsResync(code) == code = "Success"

InitSupervisor ==
    /\ verbose \in BOOLEAN
    /\ chain \in BOOLEAN
    /\ supPc = "enter"
    /\ stage = "primary"
    /\ logOutput = OriginalSink
    /\ resetTo = OriginalSink
    /\ cmdRuns = [g \in {"primary", "resync"} |-> 0]
    /\ outcome = [g \in {"primary", "resync"} |-> NoOutcome]
    /\ uploads = << >>
    /\ exitCode = "none"
    /\ RunIdle

\* runCmd starts: captureLogs tees the log output into a fresh buffer, the
\* deferred recover is installed and the command function is called.
RunCmdEnter ==
    /\ supPc = "enter"
    /\ resetTo' = logOutput
    /\ logOutput' = MultiWriter(logOutput, stage)
    /\ cmdRuns' = [cmdRuns EXCEPT ![stage] = @ + 1]
    /\ supPc' = "running"
    /\ UNCHANGED << verbose, chain, stage, outcome, uploads, exitCode >>
    /\ UNCHANGED runVars
    /\ UNCHANGED << gateVars, saveVars, chainVars >>

\* The command function returns (exitCode, err).
CmdReturns ==
    /\ supPc = "running"
    /\ \E code \in ExitCodes, failed \in BOOLEAN :
        /\ outcome' = [outcome EXCEPT ![stage] =
                [kind |-> "returned", code |-> code, err |-> failed]]
        /\ IF failed
           THEN /\ logOutput' = resetTo
                /\ supPc' = IF ErrorSendsDiagnostics(code, verbose) THEN "diagnostics"
                             ELSE "return"
           ELSE /\ logOutput' = logOutput
                /\ supPc' = "return"
    /\ UNCHANGED << verbose, chain, stage, resetTo, cmdRuns, uploads, exitCode >>
    /\ UNCHANGED runVars
    /\ UNCHANGED << gateVars, saveVars, chainVars >>

\* The command function panics: the deferred function recovers, restores the
\* log output and, after the diagnostics if any, exits with ErrGeneric.
CmdPanics ==
    /\ supPc = "running"
    /\ outcome' = [outcome EXCEPT ![stage] = [kind |-> "panicked"]]
    /\ logOutput' = resetTo
    /\ IF PanicSendsDiagnostics(verbose)
       THEN /\ supPc' = "diagnostics"
            /\ exitCode' = exitCode
       ELSE /\ supPc' = "exited"
            /\ exitCode' = "ErrGeneric"
    /\ UNCHANGED << verbose, chain, stage, resetTo, cmdRuns, uploads >>
    /\ UNCHANGED runVars
    /\ UNCHANGED << gateVars, saveVars, chainVars >>

\* sendDiagnostics: every failure inside it is logged and it returns.
SendDiagnostics ==
    /\ supPc = "diagnostics"
    /\ \E result \in {"params_failed", "client_failed", "send_failed", "sent"} :
        uploads' = Append(uploads, [stage |-> stage, result |-> result])
    /\ IF outcome[stage].kind = "panicked"
       THEN /\ supPc' = "exited"
            /\ exitCode' = "ErrGeneric"
       ELSE /\ supPc' = "return"
            /\ exitCode' = exitCode
    /\ UNCHANGED << verbose, chain, stage, logOutput, resetTo, cmdRuns, outcome >>
    /\ UNCHANGED runVars
    /\ UNCHANGED << gateVars, saveVars, chainVars >>

\* a diagnostics upload that failed turned into the exit code ErrGeneric
RunCmdCodeEscalated(code, ups) ==
    IF \E i \in DOMAIN ups : ups[i].result # "sent" THEN "ErrGeneric" ELSE code

\* what runCmd returns: the exit code of the command, whatever sendDiagnostics did
RunCmdCode(code, ups) == code

\* runCmd returns the exit code to RunCmd or RunCmdWithOfflineSync, which
\* exits with it or goes on to runCmd(offlinesync.Run).
RunCmdReturn ==
    /\ supPc = "return"
    /\ LET returned == RunCmdCode(outcome[stage].code, uploads)
       IN  IF chain /\ stage = "primary" /\ ChainsResync(returned)
           THEN /\ stage' = "resync"
                /\ supPc' = "enter"
                /\ exitCode' = exitCode
           ELSE /\ stage' = stage
                /\ supPc' = "exited"
                /\ exitCode' = returned
    /\ UNCHANGED << verbose, chain, logOutput, resetTo, cmdRuns, outcome, uploads >>
    /\ UNCHANGED runVars
    /\ UNCHANGED << gateVars, saveVars, chainVars >>

NextSupervisor ==
    \/ RunCmdEnter
    \/ CmdReturns
    \/ CmdPanics
    \/ SendDiagnostics
    \/ RunCmdReturn

(***************************************************************************)
(* Run: load the configuration and dispatch on the parameters.             *)
(***************************************************************************)
\* the parameters Run dispatches on, in the order it tests them
Dispatch ==
    << "useragent", "version", "config-read", "config-write", "today",
       "today-goal", "entity", "sync-offline-activity", "offline-count" >>

Flags == {Dispatch[i] : i \in DOMAIN Dispatch}

\* the command function Run hands to RunCmd for each parameter
CmdFn ==
    [f \in Flags |->
        CASE f = "version" -> "runVersion"
          [] f = "config-read" -> "configread.Run"
          [] f = "config-write" -> "configwrite.Run"
          [] f = "today" -> "today.Run"
          [] f = "today-goal" -> "todaygoal.Run"
          [] f = "entity" -> "heartbeat.Run"
          [] f = "sync-offline-activity" -> "offlinesync.Run"
          [] f = "offline-count" -> "offlinecount.Run"
          [] OTHER -> "none"]

\* the first parameter of the dispatch order that is set, "none" without one
FirstSet(fs) ==
    LET idx == {i \in DOMAIN Dispatch : Dispatch[i] \in fs}
    IN  IF idx = {} THEN "none"
        ELSE Dispatch[CHOOSE i \in idx : \A j \in idx : i <= j]

\* config.ReadInConfig: a missing file is not an error, a file that does
\* not parse is
ReadInConfig(cf) == IF cf = "malformed" THEN "error" ELSE "nil"

\* Run up to its call of RunCmd, RunCmdWithOfflineSync or os.Exit
Run ==
    /\ supPc = "run"
    /\ IF ReadInConfig(configFile) = "error"
       THEN IF "entity" \in flags
            THEN /\ verbose' = FALSE
                 /\ chain' = FALSE
                 /\ command' = "heartbeat.RunWithoutSending"
                 /\ supPc' = "enter"
                 /\ exitCode' = exitCode
            ELSE /\ supPc' = "exited"
                 /\ exitCode' = "ErrConfigFileParse"
                 /\ UNCHANGED << verbose, chain, command >>
       ELSE LET f == FirstSet(flags)
            IN  IF f \in {"none", "useragent"}
                THEN /\ supPc' = "exited"
                     /\ exitCode' = IF f = "none" THEN "ErrGeneric" ELSE "Success"
                     /\ UNCHANGED << verbose, chain, command >>
                ELSE \E logVerbose \in BOOLEAN :
                     /\ verbose' = logVerbose
                     /\ chain' = (f = "entity")
                     /\ command' = CmdFn[f]
                     /\ supPc' = "enter"
                     /\ exitCode' = exitCode
    /\ UNCHANGED << stage, logOutput, resetTo, cmdRuns, outcome, uploads, configFile, flags >>
    /\ UNCHANGED << gateVars, saveVars, chainVars >>

\* the whole invocation: Run, then the supervisor
NextRun ==
    \/ Run
    \/ NextSupervisor

(***************************************************************************)
(* The handler chain.                                                      *)
(***************************************************************************)
\* a slice of heartbeats: nil, or holding a batch
Nil == [isNil |-> TRUE, batch |-> << >>]
Slice(b) == [isNil |-> FALSE, batch |-> b]

\* Heartbeat.Lines not set
NoLines == 0 - 1

\* a nil slice of results
NoResults == 0 - 1

NoResult == [err |-> "none", results |-> NoResults]

\* heartbeat.New: the heartbeat built from the parameters of one entity
New(h) ==
    [Entity |-> h.Entity, EntityType |-> h.EntityType, Lines |-> NoLines,
     formatted |-> FALSE, sanitized |-> FALSE]

\* the process whose backoff.Config the gate of the chain closed over
Caller == CHOOSE p \in Procs : TRUE

\* what a Handle does with the batch it was called with
Delegate(b) == [kind |-> "delegate", hh |-> b]
Abort(e) == [kind |-> "error", err |-> e]

\* the batches with some entries of b dropped and the others kept in order
RECURSIVE SubSeqs(_)
SubSeqs(b) ==
    IF b = << >> THEN {<< >>}
    ELSE LET rest == SubSeqs(Tail(b))
         IN  rest \cup {<< Head(b) >> \o r : r \in rest}

\* what os.Stat and countLineNumbers can answer for one file
FileInfos ==
    {[err |-> TRUE, Size |-> 0, countErr |-> FALSE, lines |-> 0],
     [err |-> FALSE, Size |-> maxFileSizeSupported + 1, countErr |-> FALSE, lines |-> 0],
     [err |-> FALSE, Size |-> maxFileSizeSupported, countErr |-> TRUE, lines |-> 0],
     [err |-> FALSE, Size |-> maxFileSizeSupported, countErr |-> FALSE, lines |-> 12]}

\* a detection that drops the file heartbeats whose lines were not counted
DetectDropping(b, info) ==
    LET detected == [n \in DOMAIN b |->
                        IF b[n].EntityType = "file" /\ ~info[n].err /\ ~info[n].countErr
                           /\ ~(info[n].Size > maxFileSizeSupported)
                        THEN [b[n] EXCEPT !.Lines = info[n].lines] ELSE b[n]]
    IN  SelectSeq(detected, LAMBDA h : h.EntityType # "file" \/ h.Lines # NoLines)

\* the loop of filestats.WithDetection over hh: Lines is set on the file
\* entities whose file could be read and is not too large
Detect(b, info) ==
    [n \in DOMAIN b |->
        IF /\ b[n].EntityType = "file"
           /\ ~info[n].err
           /\ ~(info[n].Size > maxFileSizeSupported)
           /\ ~info[n].countErr
        THEN [b[n] EXCEPT !.Lines = info[n].lines]
        ELSE b[n]]

\* the Handle of WithBackoff up to its call of next: blocked is the decision
\* of shouldBackoff
GateCalls(b, blocked) ==
    {IF AfterGate(blocked) = "next" THEN Delegate(b) ELSE Abort("backoff_error")}

\* the Handle of filestats.WithDetection: the loop, then return next(hh)
WithDetection(b) == {Delegate(Detect(b, info)) : info \in [DOMAIN b -> FileInfos]}

\* the Handles of the other options up to their call of next: formatting and
\* sanitization work on every heartbeat, the filters drop some, the
\* detections of the other packages and the queue pass the batch on
OtherCalls(s, b) ==
    CASE s = "formatting" ->
            {Delegate([n \in DOMAIN b |-> [b[n] EXCEPT !.formatted = TRUE]])}
      [] s \in {"filtering", "project_filtering"} ->
            {Delegate(kept) : kept \in SubSeqs(b)}
      [] s = "sanitization" ->
            {Delegate([n \in DOMAIN b |-> [b[n] EXCEPT !.sanitized = TRUE]])}
      [] OTHER -> {Delegate(b)}

\* what the Handle of option s does when called with batch b
Calls(s, b, blocked) ==
    CASE s = "backoff" -> GateCalls(b, blocked)
      [] s = "filestats" -> WithDetection(b)
      [] OTHER -> OtherCalls(s, b)

\* heartbeat.NewHandle(sender, opts...) called with batch b: the first option
\* is the outermost Handle
Invoke(opts, b) ==
    /\ handleOpts' = opts
    /\ handleCalls' = handleCalls + 1
    /\ flow' = "down"
    /\ depth' = 1
    /\ hh' = b
    /\ trace' = << >>
    /\ handleRet' = NoResult

\* where a return from the Handle at depth d goes
FlowAfter(d) == IF d = 1 THEN "done" ELSE "up"

\* The Handle of option handleOpts[depth] is called: it works on the batch and
\* calls next, or returns an error without calling it.
StageEnter ==
    /\ flow = "down"
    /\ depth <= Len(handleOpts)
    /\ trace' = Append(trace, [stage |-> handleOpts[depth], hh |-> hh])
    /\ \E conv \in FloatConversions :
        LET blocked == /\ handleOpts[depth] = "backoff"
                       /\ shouldBackoff(config[Caller].Retries, config[Caller].At, now, conv)
        IN  \E out \in Calls(handleOpts[depth], hh, blocked) :
                IF out.kind = "delegate"
                THEN /\ hh' = out.hh
                     /\ depth' = depth + 1
                     /\ flow' = "down"
                     /\ handleRet' = handleRet
                ELSE /\ hh' = hh
                     /\ depth' = depth - 1
                     /\ flow' = FlowAfter(depth)
                     /\ handleRet' = [err |-> out.err, results |-> NoResults]
    /\ UNCHANGED << handleOpts, handleCalls, store >>
    /\ UNCHANGED << gateVars, supVars, saveVars >>

\* The sender, last in the chain, is called: it delivers the batch and
\* returns one handleRet per heartbeat, or it fails.
SenderSends ==
    /\ flow = "down"
    /\ depth = Len(handleOpts) + 1
    /\ trace' = Append(trace, [stage |-> "sender", hh |-> hh])
    /\ \E sent \in BOOLEAN :
        /\ store' = IF sent THEN store \o hh ELSE store
        /\ handleRet' = IF sent THEN [err |-> "none", results |-> Len(hh)]
                     ELSE [err |-> "send_error", results |-> NoResults]
    /\ depth' = depth - 1
    /\ flow' = FlowAfter(depth)
    /\ UNCHANGED << handleOpts, handleCalls, hh >>
    /\ UNCHANGED << gateVars, supVars, saveVars >>

\* next has returned to the Handle of option handleOpts[depth], which returns
\* in turn: the gate after its call of updateBackoffSettings, if any, the
\* others at once.
StageReturn ==
    /\ flow = "up"
    /\ depth >= 1
    /\ IF handleOpts[depth] = "backoff"
       THEN LET update == IF handleRet.err # "none" THEN FailureUpdate(config[Caller], now)
                          ELSE SuccessUpdate(config[Caller])
            IN  /\ \E loaded \in BOOLEAN, saved \in BOOLEAN :
                    file' = IF update.set /\ loaded /\ saved
                            THEN WriteKeys(file, update) ELSE file
                /\ handleRet' = IF handleRet.err # "none"
                             THEN [err |-> handleRet.err, results |-> NoResults]
                             ELSE handleRet
       ELSE /\ file' = file
            /\ handleRet' = handleRet
    /\ depth' = depth - 1
    /\ flow' = FlowAfter(depth)
    /\ UNCHANGED << handleOpts, handleCalls, hh, trace, store >>
    /\ UNCHANGED << now, advances, pc, config, calls, nextResult, req, writer, ret >>
    /\ UNCHANGED cwVars
    /\ UNCHANGED << supVars, saveVars >>

\* the composed Handle is invoked with the batch of the command
CallHandle ==
    /\ savePc = "idle"
    /\ flow \in {"idle", "done"}
    /\ handleCalls < MaxCalls
    /\ Invoke(handleOpts, heartbeats.batch)
    /\ UNCHANGED store
    /\ UNCHANGED << gateVars, supVars, saveVars >>

NextChain ==
    \/ CallHandle
    \/ StageEnter
    \/ SenderSends
    \/ StageReturn

(***************************************************************************)
(* The offline save command.                                               *)
(***************************************************************************)
\* parameters of the extra heartbeats read from stdin
ExtraHeartbeats(n) ==
    [i \in 1..n |-> [Entity |-> i + 1, EntityType |-> IF i % 2 = 1 THEN "app" ELSE "file"]]

\* what the loaders of the offline, API and heartbeat parameters can find
ParamsInputs ==
    {[heartbeatErr |-> e,
      Offline |-> [Disabled |-> d],
      Heartbeat |-> [Entity |-> 1, EntityType |-> t, ExtraHeartbeats |-> ExtraHeartbeats(n)]] :
        e \in BOOLEAN, d \in BOOLEAN, t \in {"file", "app"}, n \in 0..MaxExtra}

\* batches a caller can hand over
BatchInputs ==
    {<< >>,
     << New([Entity |-> 1, EntityType |-> "file"]) >>,
     << New([Entity |-> 2, EntityType |-> "file"]), New([Entity |-> 1, EntityType |-> "app"]) >>}

\* the extra heartbeats appended first, the main heartbeat last
buildHeartbeatsMainLast(p) ==
    [i \in 1..Len(p.Heartbeat.ExtraHeartbeats) |-> New(p.Heartbeat.ExtraHeartbeats[i])]
        \o << New(p.Heartbeat) >>

\* buildHeartbeats: the main heartbeat, then the extra heartbeats in their order
buildHeartbeats(p) ==
    << New(p.Heartbeat) >>
        \o [i \in 1..Len(p.Heartbeat.ExtraHeartbeats) |-> New(p.Heartbeat.ExtraHeartbeats[i])]

\* the options with sanitization ahead of the detections
initHandleOptionsSanitizeEarly ==
    << "formatting", "filtering", "sanitization", "entity_modifier", "remote", "filestats",
       "language", "deps", "project", "project_filtering" >>

\* initHandleOptions
initHandleOptions ==
    << "formatting", "filtering", "entity_modifier", "remote", "filestats",
       "language", "deps", "project", "project_filtering", "sanitization" >>

\* an offline save that goes on when saving is disabled
OfflineRefusedNever(p) == FALSE

\* whether SaveHeartbeats refuses to save
OfflineRefused(p) == p.Offline.Disabled

\* SaveHeartbeats up to initHandleOptions: the parameters are loaded, the
\* heartbeat parameters only for a nil batch, which is then built from them.
SaveHeartbeats ==
    /\ savePc = "start"
    /\ IF heartbeats = Nil /\ params.heartbeatErr
       THEN /\ saveRet' = "failed to load command parameters"
            /\ savePc' = "returned"
            /\ UNCHANGED << heartbeats, handleOpts >>
       ELSE IF OfflineRefused(params)
       THEN /\ saveRet' = "saving to offline db disabled"
            /\ savePc' = "returned"
            /\ UNCHANGED << heartbeats, handleOpts >>
       ELSE /\ heartbeats' = IF heartbeats = Nil THEN Slice(buildHeartbeats(params))
                             ELSE heartbeats
            /\ handleOpts' = initHandleOptions
            /\ savePc' = "queue"
            /\ saveRet' = saveRet
    /\ UNCHANGED << params, queues >>
    /\ UNCHANGED << flow, depth, hh, trace, handleRet, handleCalls, store >>
    /\ UNCHANGED << gateVars, supVars >>

\* a save that reports the error of the Handle
SaveReturnsHandleError(r) == IF r.err = "none" THEN "nil" ELSE r.err

\* what SaveHeartbeats returns after the Handle: both of its values are dropped
SaveReturns(r) == "nil"

\* offline.WithQueue opens the queue; on an error the save is given up,
\* otherwise the option is appended and the Handle built and called.
WithQueue ==
    /\ savePc = "queue"
    /\ \E opened \in BOOLEAN :
        IF opened
        THEN /\ queues' = queues + 1
             /\ Invoke(Append(handleOpts, "queue"), heartbeats.batch)
             /\ savePc' = "handle"
             /\ saveRet' = saveRet
        ELSE /\ saveRet' = "failed saving heartbeats because unable to init offline queue"
             /\ savePc' = "returned"
             /\ UNCHANGED << queues, handleOpts, flow, depth, hh, trace, handleRet, handleCalls >>
    /\ UNCHANGED << heartbeats, params, store >>
    /\ UNCHANGED << gateVars, supVars >>

\* the Handle has returned: SaveHeartbeats returns nil
SaveHeartbeatsReturn ==
    /\ savePc = "handle"
    /\ flow = "done"
    /\ saveRet' = SaveReturns(handleRet)
    /\ savePc' = "returned"
    /\ UNCHANGED << heartbeats, params, queues >>
    /\ UNCHANGED chainVars
    /\ UNCHANGED << gateVars, supVars >>

NextSave ==
    \/ SaveHeartbeats
    \/ WithQueue
    \/ StageEnter
    \/ SenderSends
    \/ StageReturn
    \/ SaveHeartbeatsReturn

(***************************************************************************)
(* Specifications.                                                         *)
(***************************************************************************)
\* no handle built, none called
ChainIdle ==
    /\ handleOpts = << >>
    /\ flow = "idle"
    /\ depth = 0
    /\ hh = << >>
    /\ trace = << >>
    /\ handleRet = NoResult
    /\ handleCalls = 0
    /\ store = << >>

\* the offline save command not run
SaveIdle ==
    /\ savePc = "idle"
    /\ heartbeats = Nil
    /\ params = CHOOSE p \in ParamsInputs : TRUE
    /\ queues = 0
    /\ saveRet = "none"

\* chains of options a command can build its Handle from
ChainInputs ==
    {<< >>, << "filestats" >>, << "backoff" >>,
     << "filestats", "backoff" >>, << "backoff", "filestats" >>,
     << "filtering", "filestats", "backoff" >>}

\* the supervisor at rest, for the specifications of the gate
SupervisorIdle ==
    /\ verbose = FALSE
    /\ chain = FALSE
    /\ supPc = "exited"
    /\ stage = "primary"
    /\ logOutput = OriginalSink
    /\ resetTo = OriginalSink
    /\ cmdRuns = [g \in {"primary", "resync"} |-> 0]
    /\ outcome = [g \in {"primary", "resync"} |-> NoOutcome]
    /\ uploads = << >>
    /\ exitCode = "none"
    /\ RunIdle

\* the gate at rest, for the specification of the supervisor
BackoffIdle ==
    /\ now = Start
    /\ advances = 0
    /\ file = HealthyFile
    /\ InitProcs
    /\ CwIdle

\* inputs of the gate as a function: any retries, since and clock
RetriesInputs == (0 - 1)..MaxRetries
AtInputs == {ZeroTime, Start}
ElapsedInputs ==
    {0 - 2 * TicksPerSec, 0, 1, 20 * TicksPerSec,
     factor * 2 * TicksPerSec - 1, factor * 2 * TicksPerSec,
     factor * 4 * TicksPerSec - 1, factor * 4 * TicksPerSec,
     resetAfter * TicksPerSec - 1, resetAfter * TicksPerSec,
     (resetAfter + 100) * TicksPerSec}

InitGate ==
    /\ now \in {Start + e : e \in ElapsedInputs}
    /\ advances = 0
    /\ file = HealthyFile
    /\ \E r \in RetriesInputs, a \in AtInputs :
        config = [p \in Procs |-> [Retries |-> r, At |-> a]]
    /\ pc = [p \in Procs |-> "ready"]
    /\ calls = [p \in Procs |-> 0]
    /\ nextResult = [p \in Procs |-> "none"]
    /\ req = [p \in Procs |-> NoReq]
    /\ writer = [p \in Procs |-> NoWriter]
    /\ ret = [p \in Procs |-> "none"]

NextGate == \E p \in Procs : HandleEnter(p)

Init == InitBackoff /\ CwIdle /\ SupervisorIdle /\ SaveIdle /\ ChainIdle
Next == NextBackoff

\* concurrent invocations of the program sharing the config file
Spec == Init /\ [][Next]_vars

InitGateInputs == InitGate /\ CwIdle /\ SupervisorIdle /\ SaveIdle /\ ChainIdle

\* the gate decision alone, over all its inputs
SpecGate == InitGateInputs /\ [][NextGate]_vars

InitSup == BackoffIdle /\ InitSupervisor /\ SaveIdle /\ ChainIdle

\* one process under the command supervisor
SpecSup == InitSup /\ [][NextSupervisor]_vars

InitSave ==
    /\ BackoffIdle
    /\ SupervisorIdle
    /\ ChainIdle
    /\ savePc = "start"
    /\ heartbeats \in {Nil} \cup {Slice(b) : b \in BatchInputs}
    /\ params \in ParamsInputs
    /\ queues = 0
    /\ saveRet = "none"

\* one run of SaveHeartbeats, over its arguments and the configuration
SpecSave == InitSave /\ [][NextSave]_vars

InitChain ==
    /\ CwIdle
    /\ now = Start
    /\ advances = 0
    /\ file \in InitFiles
    /\ config = [p \in Procs |-> ReadConfig(file)]
    /\ pc = [p \in Procs |-> "ready"]
    /\ calls = [p \in Procs |-> 0]
    /\ nextResult = [p \in Procs |-> "none"]
    /\ req = [p \in Procs |-> NoReq]
    /\ writer = [p \in Procs |-> NoWriter]
    /\ ret = [p \in Procs |-> "none"]
    /\ SupervisorIdle
    /\ savePc = "idle"
    /\ heartbeats \in {Slice(b) : b \in BatchInputs}
    /\ params = CHOOSE q \in ParamsInputs : TRUE
    /\ queues = 0
    /\ saveRet = "none"
    /\ handleOpts \in ChainInputs
    /\ flow = "idle"
    /\ depth = 0
    /\ hh = << >>
    /\ trace = << >>
    /\ handleRet = NoResult
    /\ handleCalls = 0
    /\ store = << >>

\* a command calling a Handle built from a chain of options around the sender
SpecChain == InitChain /\ [][NextChain]_vars

InitRun ==
    /\ BackoffIdle
    /\ SaveIdle
    /\ ChainIdle
    /\ configFile \in {"missing", "parsable", "malformed"}
    /\ flags \in SUBSET Flags
    /\ command = "none"
    /\ verbose = FALSE
    /\ chain = FALSE
    /\ supPc = "run"
    /\ stage = "primary"
    /\ logOutput = OriginalSink
    /\ resetTo = OriginalSink
    /\ cmdRuns = [g \in {"primary", "resync"} |-> 0]
    /\ outcome = [g \in {"primary", "resync"} |-> NoOutcome]
    /\ uploads = << >>
    /\ exitCode = "none"

\* one invocation of the program from Run to its exit
SpecRun == InitRun /\ [][NextRun]_vars

InitIni ==
    /\ InitBackoff
    /\ cwPc = "init"
    /\ cwWriter = UndefinedWriter
    /\ cwRet = "none"
    /\ SupervisorIdle
    /\ SaveIdle
    /\ ChainIdle

\* the backoff processes and another writer sharing the config file
SpecIni == InitIni /\ [][NextIni]_vars

(***************************************************************************)
(* Properties.                                                             *)
(***************************************************************************)
\* the step in which process p enters the Handle and the gate decides
GateEntered(p) == pc[p] \in {"ready", "returned"} /\ calls'[p] = calls[p] + 1

\* the step in which process p comes back from NewIniWriter or Write
UpdateOver(p) == pc[p] \in {"update", "write"} /\ pc'[p] = "returned"

\* min(factor * 2^retries, resetAfter) seconds, in ticks.  factor * 2^20
\* already exceeds resetAfter, so larger exponents are not computed.
ClaimedWindow(retries) ==
    LET e == IF retries > 20 THEN 20 ELSE retries
        d == factor * 2 ^ e
    IN  (IF d < resetAfter THEN d ELSE resetAfter) * TicksPerSec

\* C1: for retries >= 1 and since set, the gate blocks exactly when
\* now < since + 15 * 2^retries seconds and now < since + 3600 seconds.
C1_BlocksIffInWindow ==
    [][\A p \in Procs :
         (GateEntered(p) /\ config[p].Retries >= 1 /\ ~IsZero(config[p].At))
         => ((ret'[p] = "backoff_error")
             <=> (now - config[p].At < ClaimedWindow(config[p].Retries)))]_vars

\* C2: the gate never blocks when retries < 1, or since is unset, or
\* now >= since + 3600 seconds, whatever the other inputs are.
C2_NeverBlocksOutside ==
    \A p \in Procs :
        (/\ pc[p] # "ready"
         /\ \/ config[p].Retries < 1
            \/ IsZero(config[p].At)
            \/ now - config[p].At >= resetAfter * TicksPerSec)
        => (pc[p] = "next" /\ ret[p] # "backoff_error")

\* a gate let through after the hour although the exponential window is longer
C2_Witness ==
    \E p \in Procs :
        /\ pc[p] = "next"
        /\ config[p].Retries >= 8
        /\ ~IsZero(config[p].At)
        /\ now - config[p].At >= resetAfter * TicksPerSec

C4_SuccessResets ==
    [][\A p \in Procs :
         /\ (pc[p] = "next" /\ nextResult'[p] = "ok")
            => /\ req'[p].set <=> ~IsZero(config[p].At)
               /\ req'[p].set => (req'[p].retries = 0 /\ IsZero(req'[p].at))
               /\ ~req'[p].set
                  => (pc'[p] = "returned" /\ ret'[p] = "results" /\ file' = file)
         /\ (UpdateOver(p) /\ nextResult[p] = "ok")
            => /\ ret'[p] = "results"
               /\ ~IsZero(config[p].At)
               /\ file' = file \/ (file'.backoff_retries = 0 /\ file'.backoff_at = EmptyValue)]_vars

\* one process has reset a streak, another has succeeded on the healthy state
C4_Witness ==
    \E p, q \in Procs :
        /\ ret[p] = "results" /\ ~IsZero(config[p].At) /\ writer[p].loaded
        /\ ret[q] = "results" /\ IsZero(config[q].At) /\ ~req[q].set
        /\ file = HealthyFile

\* C5: in every durable state, retries = 0 exactly when since is unset, and
\* retries is not negative.
C5_DurableInvariant ==
    /\ file.backoff_retries >= 0
    /\ file.backoff_retries = 0 <=> file.backoff_at = EmptyValue

\* two invocations that overlapped, one failing and one resetting, both written
C5_Witness ==
    \E p, q \in Procs :
        /\ pc[p] = "returned" /\ ret[p] = "next_error" /\ writer[p].loaded
        /\ pc[q] = "returned" /\ ret[q] = "results" /\ writer[q].loaded
        /\ config[p] = config[q]
        /\ file.backoff_retries = config[p].Retries + 1

\* C6: when the gate blocks, next is not called, the caller gets an error and
\* no results, no update is asked for and the file is unchanged.
C6_BlockedLeavesState ==
    [][\A p \in Procs :
         /\ (GateEntered(p) /\ ret'[p] = "backoff_error")
            => /\ pc'[p] = "returned"
               /\ nextResult'[p] = "none"
               /\ ~req'[p].set
               /\ ~writer'[p].loaded
               /\ file' = file
         /\ (ret[p] = "backoff_error")
            => (pc[p] = "returned" /\ nextResult[p] = "none" /\ ~req[p].set)]_vars

\* a blocked call inside the exponential window of a streak
C6_Witness ==
    \E p \in Procs :
        /\ pc[p] = "returned"
        /\ ret[p] = "backoff_error"
        /\ nextResult[p] = "none"
        /\ file.backoff_retries = config[p].Retries
        /\ now - config[p].At < resetAfter * TicksPerSec

\* the sendDiagnostics calls made for the command of stage g
UploadsOf(g) == Len(SelectSeq(uploads, LAMBDA u : u.stage = g))

\* runCmd is over for the command of stage g, which returned
ReturnedFrom(g) ==
    /\ outcome[g].kind = "returned"
    /\ stage # g \/ supPc \in {"return", "enter", "exited"}

C8_UploadOnError ==
    \A g \in {"primary", "resync"} :
        ReturnedFrom(g)
        => (UploadsOf(g) = 1
            <=> (outcome[g].err /\ ~(outcome[g].code = "ErrAuth" /\ verbose)))

\* C9: under RunCmdWithOfflineSync the resync command runs exactly when the
\* primary command returned Success, at most once; otherwise the process exits
\* with the primary's code, and after the resync with the resync's code.
C9_ResyncIffSuccess ==
    chain =>
        /\ cmdRuns["primary"] <= 1 /\ cmdRuns["resync"] <= 1
        /\ cmdRuns["resync"] = 1
           => (outcome["primary"].kind = "returned" /\ outcome["primary"].code = "Success")
        /\ supPc = "exited"
           => /\ cmdRuns["resync"] = 1
                 <=> (outcome["primary"].kind = "returned"
                      /\ outcome["primary"].code = "Success")
              /\ outcome["primary"].kind = "panicked" => exitCode = "ErrGeneric"
              /\ (outcome["primary"].kind = "returned" /\ outcome["primary"].code # "Success")
                 => exitCode = outcome["primary"].code
              /\ outcome["resync"].kind = "returned" => exitCode = outcome["resync"].code
              /\ outcome["resync"].kind = "panicked" => exitCode = "ErrGeneric"

\* a successful primary command followed by a failing resync
C9_Witness ==
    /\ chain
    /\ supPc = "exited"
    /\ outcome["primary"].kind = "returned"
    /\ cmdRuns["resync"] = 1
    /\ outcome["resync"].kind = "returned"
    /\ exitCode = outcome["resync"].code
    /\ exitCode # "Success"

\* C10: when runCmd is over the log output is the sink that was installed
\* before it started, so the chained resync starts from the original sink.
C10_SinkRestored ==
    /\ supPc \in {"return", "exited"} => logOutput = resetTo
    /\ (stage = "resync" /\ supPc = "running") => resetTo = OriginalSink

\* C11: a command that returns is invoked once, never again, and the process
\* exits with the code returned by the last command run, whether the
\* diagnostics upload failed (parameters, client, send) or went through.
C11_ExitCodeIsCommands ==
    /\ \A g \in {"primary", "resync"} :
          /\ cmdRuns[g] <= 1
          /\ ReturnedFrom(g) => cmdRuns[g] = 1
    /\ (supPc = "exited" /\ outcome[stage].kind = "returned")
       => exitCode = outcome[stage].code
    /\ (stage = "resync" /\ outcome["primary"].kind = "returned")
       => outcome["primary"].code = "Success"

\* a command that failed, its diagnostics upload failed too, its code came out
C11_Witness ==
    /\ supPc = "exited"
    /\ outcome["primary"].kind = "returned"
    /\ cmdRuns["primary"] = 1
    /\ UploadsOf("primary") = 1
    /\ uploads[1].result = "client_failed"
    /\ stage = "primary"
    /\ exitCode = "ErrConfigFileParse"

\* C12: with offline saving disabled in the configuration, SaveHeartbeats
\* returns a non-nil error, for a nil batch and for a provided one, and no
\* queue is opened, no Handle called, nothing enqueued.
C12_DisabledNeverSaves ==
    params.Offline.Disabled
    => /\ queues = 0
       /\ handleCalls = 0
       /\ handleOpts = << >>
       /\ trace = << >>
       /\ store = << >>
       /\ savePc \in {"start", "returned"}
       /\ savePc = "returned" => saveRet \notin {"none", "nil"}

\* a save of a provided batch refused because offline saving is disabled
C12_Witness ==
    /\ params.Offline.Disabled
    /\ savePc = "returned"
    /\ ~heartbeats.isNil
    /\ Len(heartbeats.batch) = 2
    /\ saveRet = "saving to offline db disabled"

\* the options of the chain in construction order, then the sender
Stages == Append(handleOpts, "sender")

\* the gate of the chain decides to block, whatever the float conversion
GateBlocks ==
    \A conv \in FloatConversions :
        shouldBackoff(config[Caller].Retries, config[Caller].At, now, conv)

\* batches a and b hold the same entities in the same order
SameEntities(a, b) ==
    /\ Len(a) = Len(b)
    /\ \A n \in DOMAIN a : a[n].Entity = b[n].Entity /\ a[n].EntityType = b[n].EntityType

\* C13: in every invocation the Handles are entered in construction order,
\* the first option first and the sender last; a blocking gate keeps every
\* later option and the sender from running and its error is what the caller
\* gets; the filestats detection calls next once, with the same entities in
\* the same order.
C13_ChainOrder ==
    /\ Len(trace) <= Len(Stages)
    /\ \A i \in DOMAIN trace :
          /\ trace[i].stage = Stages[i]
          /\ (trace[i].stage = "backoff" /\ GateBlocks)
             => /\ Len(trace) = i
                /\ flow \in {"up", "done"}
                /\ handleRet = [err |-> "backoff_error", results |-> NoResults]
          /\ (trace[i].stage = "backoff" /\ ~GateBlocks /\ Len(trace) = i)
             => (flow = "down" /\ depth = i + 1 /\ hh = trace[i].hh)
          /\ (trace[i].stage = "filestats" /\ Len(trace) = i)
             => (flow = "down" /\ depth = i + 1 /\ SameEntities(hh, trace[i].hh))
          /\ (trace[i].stage = "filestats" /\ Len(trace) > i)
             => SameEntities(trace[i + 1].hh, trace[i].hh)
    /\ (flow = "done" /\ handleRet.err # "backoff_error")
       => (Len(trace) = Len(Stages) /\ trace[Len(trace)].stage = "sender")
    /\ handleCalls = 0 => store = << >>

\* a filter, the detection and a blocking gate around the sender: the
\* detection has counted the lines of a file and passed the batch on, the
\* gate has blocked, the sender has not run and the caller has the error
C13_Witness ==
    /\ handleOpts = << "filtering", "filestats", "backoff" >>
    /\ flow = "done"
    /\ Len(trace) = 3
    /\ Len(trace[1].hh) = 2
    /\ Len(trace[2].hh) = 1
    /\ trace[3].hh[1].Lines # NoLines
    /\ handleRet.err = "backoff_error"
    /\ store = << >>

\* the place of option s in the chain
Pos(s) == CHOOSE i \in DOMAIN handleOpts : handleOpts[i] = s

\* the options that work on the heartbeats before they are delivered
Enrichment ==
    {"formatting", "filtering", "entity_modifier", "remote", "filestats", "language",
     "deps", "project", "project_filtering", "sanitization"}

MainThenExtras(b) ==
    LET extra == params.Heartbeat.ExtraHeartbeats
    IN  /\ Len(b) = 1 + Len(extra)
        /\ b[1].Entity = params.Heartbeat.Entity
        /\ b[1].EntityType = params.Heartbeat.EntityType
        /\ \A i \in DOMAIN extra :
              b[i + 1].Entity = extra[i].Entity /\ b[i + 1].EntityType = extra[i].EntityType

\* C19: once the queue option is built, SaveHeartbeats calls the Handle once,
\* with the provided batch as it is or, for a nil batch, the main heartbeat
\* followed by the extra heartbeats in input order, and returns nil whatever
\* the Handle returns; the errors it returns are the parameter-load failure,
\* offline saving disabled and the queue that cannot be opened, and no other.
C19_SaveReturnsNil ==
    [][/\ (savePc = "start" /\ savePc' = "queue")
          => IF heartbeats = Nil THEN ~heartbeats'.isNil /\ MainThenExtras(heartbeats'.batch)
             ELSE heartbeats' = heartbeats
       /\ (savePc = "queue" /\ queues' = queues + 1)
          => /\ savePc' = "handle"
             /\ handleCalls = 0 /\ handleCalls' = 1
             /\ hh' = heartbeats.batch
       /\ savePc \in {"handle", "returned"}
          => (handleCalls' = handleCalls /\ queues' = queues /\ heartbeats' = heartbeats)
       /\ (savePc = "handle" /\ savePc' = "returned")
          => (flow = "done" /\ handleCalls = 1 /\ saveRet' = "nil")
       /\ (savePc # "returned" /\ savePc' = "returned" /\ saveRet' # "nil")
          => /\ handleCalls' = 0
             /\ \/ /\ saveRet' = "failed to load command parameters"
                    /\ savePc = "start" /\ heartbeats = Nil /\ params.heartbeatErr
                \/ /\ saveRet' = "saving to offline db disabled"
                    /\ savePc = "start" /\ params.Offline.Disabled
                \/ /\ saveRet' = "failed saving heartbeats because unable to init offline queue"
                    /\ savePc = "queue" /\ queues' = 0]_vars

\* a save of a nil batch with two extra heartbeats: the Handle was called with
\* the three heartbeats, the sender failed, SaveHeartbeats returned nil
C19_Witness ==
    /\ savePc = "returned"
    /\ saveRet = "nil"
    /\ queues = 1
    /\ handleCalls = 1
    /\ handleRet.err = "send_error"
    /\ Len(trace[1].hh) = 3
    /\ MainThenExtras(trace[1].hh)
    /\ store = << >>

\* the decision of shouldBackoff on the values the config file holds
BlockedByFile(conv) ==
    shouldBackoff(ReadConfig(file).Retries, ReadConfig(file).At, now, conv)

\* C15: every call of the Handle is decided on the retries and since the
\* config file holds when the call enters the gate, also a second call of the
\* same Handle after the first has persisted its failure; and, with no other
\* process at work, a failing call persists one more than the retries the file
\* holds, so that two failing calls of the same Handle leave r + 2.
C15_NoCaching ==
    [][\A p \in Procs :
         /\ GateEntered(p)
            => \A conv \in FloatConversions :
                  (ret'[p] = "backoff_error") <=> BlockedByFile(conv)
         /\ (/\ pc[p] = "next" /\ nextResult'[p] = "err"
             /\ \A q \in Procs \ {p} : pc[q] = "init")
            => req'[p].retries = file.backoff_retries + 1]_vars

\* C16: when updateBackoffSettings fails, on loading the config file or on
\* saving it, the Handle returns what it returns after a write that went
\* through, the error of next or its results, and the file keeps its value.
C16_UpdateFailureSwallowed ==
    [][\A p \in Procs :
         /\ UpdateOver(p)
            => ret'[p] = (IF nextResult[p] = "err" THEN "next_error" ELSE "results")
         /\ (pc[p] = "update" /\ pc'[p] = "returned") => file' = file
         /\ (pc[p] = "write" /\ pc'[p] = "returned")
            => \/ file' = file
               \/ /\ file'.backoff_retries = req[p].retries
                  /\ file'.backoff_at = (IF IsZero(req[p].at) THEN EmptyValue
                                          ELSE Format(req[p].at))]_vars

\* a success after a streak whose reset could not be loaded for writing: the
\* caller has the results and the file still holds the streak
C16_Witness ==
    \E p \in Procs :
        /\ pc[p] = "returned"
        /\ nextResult[p] = "ok"
        /\ req[p].set
        /\ ~writer[p].loaded
        /\ ret[p] = "results"
        /\ file.backoff_retries = config[p].Retries
        /\ file.backoff_retries >= 1

\* C17: whatever the interleaving of the invocations, a write that replaces
\* one since by another stores an instant no earlier than the one it replaces,
\* and retries goes down only by a reset to 0.
C17_SinceMonotonic ==
    [][/\ (file.backoff_at # EmptyValue /\ file'.backoff_at # EmptyValue)
          => file'.backoff_at >= file.backoff_at
       /\ \/ file'.backoff_retries >= file.backoff_retries
          \/ file'.backoff_retries = 0]_vars

\* the step in which a successful call of process p returns to its caller
SuccessReturns(p) ==
    /\ pc[p] \in {"next", "update", "write"}
    /\ pc'[p] = "returned"
    /\ nextResult'[p] = "ok"

\* C18: when the first call of a Handle was not blocked and returns after a
\* success of next, and the config file held a streak, also one written by
\* another invocation after this one read its state, the file is healthy.
\* Writes that fail are left aside: this is about the steps in which nothing
\* fails.
C18_SuccessHeals ==
    [][\A p \in Procs :
         (/\ SuccessReturns(p)
          /\ calls[p] = 1
          /\ file.backoff_retries >= 1
          /\ pc[p] = "next" \/ file' # file)
         => file' = HealthyFile]_vars

\* C20: the window is not smaller for more retries: a gate that blocks for
\* some number of retries, since and clock, the clock not before since,
\* blocks for every larger number of retries and the same since and clock.
C20_WindowMonotone ==
    [][\A p \in Procs :
         (/\ GateEntered(p)
          /\ ~IsZero(config[p].At)
          /\ now >= config[p].At
          /\ \E r \in 1..(config[p].Retries - 1) : \E conv \in FloatConversions :
                shouldBackoff(r, config[p].At, now, conv))
         => ret'[p] = "backoff_error"]_vars

\* the step in which the other writer comes back from Write
CwWritten == cwPc = "write" /\ cwPc' = "done"

\* the step in which process p comes back from Write
BackoffWritten(p) == pc[p] = "write" /\ pc'[p] = "returned"

\* C21: a write through NewIniWriter and Write changes only the given keys of
\* the given section: every other key of the file has after the write the
\* value it had on disk immediately before it, also when another process
\* wrote the file between this writer's load and its save; a Write on an
\* undefined instance returns an error and leaves the file unchanged.
C21_WriteTouchesOnlyItsKeys ==
    [][/\ \A p \in Procs : BackoffWritten(p) => file'.debug = file.debug
       /\ CwWritten =>
            /\ file'.backoff_retries = file.backoff_retries
            /\ file'.backoff_at = file.backoff_at
            /\ WriteRefused(cwWriter) =>
                 /\ cwRet' = "undefined_error"
                 /\ file' = file]_vars

\* C22: when loading the configuration file fails in Run, the process exits
\* with ErrConfigFileParse whether or not an entity was supplied; with an
\* entity the heartbeat is first handled by the store-without-sending command,
\* and no sending command and no offline resync runs in that invocation.
C22_ConfigFailureExitCode ==
    (ReadInConfig(configFile) = "error" /\ supPc = "exited") =>
        /\ exitCode = "ErrConfigFileParse"
        /\ "entity" \in flags =>
             /\ command = "heartbeat.RunWithoutSending"
             /\ cmdRuns["primary"] = 1
        /\ command \notin {"heartbeat.Run", "offlinesync.Run"}
        /\ cmdRuns["resync"] = 0
====
